---- MODULE Spec2Model ----
(***************************************************************************)
(* PDF ingestion services and batch scripts.                               *)
(*                                                                         *)
(*   packages/pdf-ingestion-service/main.py   POST /pdf/process            *)
(*   packages/pdf-ingestion/main.py           POST /pdf/chunks             *)
(*   packages/pdf-ingestion-service/ingestion.py   batch PDF -> markdown   *)
(*   packages/pdf-ingestion/ingestion.py           batch PDF -> chunks     *)
(*                                                                         *)
(* The converter, the chunker and the embeddings client are external       *)
(* collaborators: each call either raises or returns, chosen by the        *)
(* environment record env of the request.  The singletons are assumed to   *)
(* construct (settings present).  A handler runs on the event loop and is  *)
(* suspended only at "await file.read()", so a request is three steps:     *)
(* up to the await, the read and write of the upload, and the rest.        *)
(***************************************************************************)
EXTENDS Integers, Sequences, FiniteSets, TLC

VARIABLES
    pc,             \* per request: "idle", "reading", "staged", "done"
    endpoint,       \* per request: "none", "process" or "chunks"
    filename,       \* per request: file.filename, <<>> (None) or <<characters>>
    tmp_file,       \* per request: name of the open NamedTemporaryFile, <<>> or <<name>>
    tmp_file_path,  \* per request: the local tmp_file_path, <<>> (None) or <<name>>
    fs,             \* the temporary directory: name -> <<>> (absent) or <<file>>
    singletons,     \* the lru_cache entries of each service
    response,       \* per request: the HTTP response, status 0 while pending
    calls,          \* per request: the collaborator calls made, with their outcome
    produced,       \* per request: the chunks the chunker yielded
    embed_io,       \* per request: the embeddings.create calls, input and output
    script,         \* batch: "none", "service" or "ingestion"
    batch_pc,       \* batch: "off", "start", "loop", "done", "crashed"
    pdf_files,      \* batch: list(pdf_folder.glob("*.pdf"))
    idx,            \* batch: position of the for loop in pdf_files
    stdout,         \* batch: the lines printed
    md_files        \* batch: the markdown files written

reqvars == <<pc, endpoint, filename, tmp_file, tmp_file_path, fs, singletons,
             response, calls, produced, embed_io>>
batchvars == <<script, batch_pc, pdf_files, idx, stdout, md_files>>
vars == <<pc, endpoint, filename, tmp_file, tmp_file_path, fs, singletons,
          response, calls, produced, embed_io,
          script, batch_pc, pdf_files, idx, stdout, md_files>>

NumRequests == 2
MaxChunks == 2
MaxFiles == 3

Requests == 1..NumRequests
Names == 1..NumRequests
Endpoints == {"process", "chunks"}

----------------------------------------------------------------------------
(* Strings are sequences of characters. *)

DotPdf == <<".", "p", "d", "f">>

EndsWith(s, suffix) ==
    /\ Len(s) >= Len(suffix)
    /\ SubSeq(s, Len(s) - Len(suffix) + 1, Len(s)) = suffix

Filenames ==
    { <<>>,
      << <<>> >>,
      << <<"a", ".", "p", "d", "f">> >>,
      << <<"a", ".", "t", "x", "t">> >>,
      << <<"a", ".", "P", "D", "F">> >>,
      << <<"p", "d", "f">> >> }

\* A check that tests only that a filename was sent.
Unsupported_MissingOnly(fn) == fn = <<>> \/ fn[1] = <<>>

\* not file.filename or not file.filename.endswith('.pdf')
Unsupported(fn) ==
    \/ fn = <<>>
    \/ fn[1] = <<>>
    \/ ~EndsWith(fn[1], DotPdf)

Upload(r) == <<r>>

NoResponse == [status |-> 0, body |-> [detail |-> <<>>]]

HTTPException(status, detail) == [status |-> status, body |-> [detail |-> detail]]

ProcessingError(cause) == HTTPException(500, <<"Error processing PDF: ", cause>>)

OnlyPdf == HTTPException(400, <<"Only PDF files are supported">>)

----------------------------------------------------------------------------
(* The environment of one request: what the collaborators will do.         *)
(*   n           chunks in the converted document                          *)
(*   fault       the call that raises, if any                              *)
(*   at          the chunk at which the chunker or contextualize raises    *)
(*   emb_raises  embeddings.create raises                                  *)
(*   m           vectors in the embeddings response                        *)

Faults == {"none", "convert", "export_to_text", "chunk", "contextualize"}

Envs ==
    { e \in [n : 0..MaxChunks, fault : Faults, at : 1..(MaxChunks + 1),
             emb_raises : BOOLEAN, m : 0..(MaxChunks + 1)] :
        /\ e.fault \in {"none", "convert", "export_to_text"} => e.at = 1
        /\ e.fault = "convert" => e.n = 0
        /\ e.fault = "chunk" => e.at <= e.n + 1
        /\ e.fault = "contextualize" => e.at <= e.n
        /\ e.fault # "none" => ~e.emb_raises
        /\ (e.fault # "none" \/ e.emb_raises) => e.m = 0
        /\ e.m <= e.n + 1 }

Call(op, raised) == <<op, IF raised THEN "raise" ELSE "ok">>

\* A chunk of the document converted from the bytes src, in document order.
DocChunk(src, i) ==
    [text |-> <<"text", src, i>>,
     headings |-> IF i % 2 = 1 THEN << <<"heading", src>> >> ELSE <<>>,
     meta |-> <<"meta", src, i>>]

\* chunker.contextualize(chunk=chunk): the heading trail, then the text.
Contextualize(chunk) == chunk.headings \o <<chunk.text>>

\* chunk.meta.export_json_dict() if hasattr(chunk.meta, 'export_json_dict') else {}
ExportMeta(chunk) == chunk.meta

\* converter.convert(tmp_file_path).document
ConverterConvert(fsys, path, env) ==
    LET missing == fsys[path] = <<>>
        raised == missing \/ fsys[path][1].bytes = <<>> \/ env.fault = "convert"
    IN  [raised |-> raised,
         cause |-> "ConversionError",
         call |-> Call("convert", raised),
         doc |-> [src |-> IF missing THEN <<>> ELSE fsys[path][1].bytes,
                  n |-> IF raised THEN 0 ELSE env.n]]

\* doc.export_to_text()
ExportToText(doc, env) ==
    LET raised == env.fault = "export_to_text"
    IN  [raised |-> raised,
         cause |-> "ExportError",
         call |-> Call("export_to_text", raised),
         text |-> <<"full_text", doc.src>>]

\* How far "for ... in chunker.chunk(dl_doc=doc)" gets: the chunks yielded,
\* the chunks contextualized, and whether the iteration raised.
ChunkerRun(doc, env) ==
    LET chunk_raises == env.fault = "chunk" /\ env.at <= doc.n + 1
        ctx_raises == env.fault = "contextualize" /\ env.at <= doc.n
        yielded == IF chunk_raises THEN env.at - 1
                   ELSE IF ctx_raises THEN env.at ELSE doc.n
        done == IF ctx_raises THEN env.at - 1 ELSE yielded
    IN  [raised |-> chunk_raises \/ ctx_raises,
         cause |-> IF chunk_raises THEN "ChunkingError" ELSE "ContextualizeError",
         produced |-> [i \in 1..yielded |-> DocChunk(doc.src, i)],
         done |-> done,
         calls |-> <<Call("chunk", FALSE)>>
                   \o [i \in 1..done |-> Call("contextualize", FALSE)]
                   \o (IF ctx_raises THEN <<Call("contextualize", TRUE)>>
                       ELSE IF chunk_raises THEN <<Call("next", TRUE)>>
                       ELSE <<Call("next", FALSE)>>)]

\* openai_client.embeddings.create(model=..., input=contextualized_texts)
EmbeddingsCreate(input, env) ==
    [raised |-> env.emb_raises,
     cause |-> "EmbeddingTransportError",
     call |-> Call("embeddings.create", env.emb_raises),
     data |-> IF env.emb_raises THEN <<>>
              ELSE [j \in 1..env.m |-> [embedding |-> <<"vector", j>>]]]

\* The outcome of the body of a try block.
Abort(cause, cs, prod, io) ==
    [raised |-> TRUE, cause |-> cause, calls |-> cs, produced |-> prod,
     embed_io |-> io, chunks |-> <<>>, full_text |-> <<>>]

Completed(cs, prod, io, chunks, full_text) ==
    [raised |-> FALSE, cause |-> "", calls |-> cs, produced |-> prod,
     embed_io |-> io, chunks |-> chunks, full_text |-> full_text]

----------------------------------------------------------------------------
(* POST /pdf/process: the body of the try block after the upload is staged *)

\* Indices counted from one.
ChunkData_IndexFromOne(prod) ==
    [i \in 1..Len(prod) |->
        [text |-> prod[i].text,
         contextualized_text |-> Contextualize(prod[i]),
         meta |-> ExportMeta(prod[i]),
         index |-> i]]

\* for idx, chunk in enumerate(chunk_iter): chunk_data.append({...})
ChunkData(prod) ==
    [i \in 1..Len(prod) |->
        [text |-> prod[i].text,
         contextualized_text |-> Contextualize(prod[i]),
         meta |-> ExportMeta(prod[i]),
         index |-> i - 1]]

\* contextualized_texts.append(contextualized_text)
ContextualizedTexts(chunk_data) ==
    [i \in 1..Len(chunk_data) |-> chunk_data[i].contextualized_text]

\* A short response attached to the chunks it covers, the others left without.
ChunkResponses_Partial(chunk_data, data) ==
    [raised |-> FALSE, cause |-> "",
     chunks |-> [i \in 1..Len(chunk_data) |->
                   [text |-> chunk_data[i].text,
                    contextualized_text |-> chunk_data[i].contextualized_text,
                    embedding |-> IF i <= Len(data) THEN data[i].embedding ELSE <<>>,
                    index |-> chunk_data[i].index,
                    meta |-> chunk_data[i].meta]]]

\* The vectors attached in the reverse of the order returned.
ChunkResponses_ReversedZip(chunk_data, data) ==
    IF Len(data) < Len(chunk_data)
    THEN [raised |-> TRUE, cause |-> "IndexError: list index out of range",
          chunks |-> <<>>]
    ELSE [raised |-> FALSE, cause |-> "",
          chunks |-> [i \in 1..Len(chunk_data) |->
                        [text |-> chunk_data[i].text,
                         contextualized_text |-> chunk_data[i].contextualized_text,
                         embedding |-> data[Len(chunk_data) + 1 - i].embedding,
                         index |-> chunk_data[i].index,
                         meta |-> chunk_data[i].meta]]]

\* for i, chunk_info in enumerate(chunk_data): chunks.append(ChunkResponse(...
\* embedding=embeddings_response.data[i].embedding ...)); data[i] raises
\* IndexError when the response is shorter than chunk_data.
ChunkResponses(chunk_data, data) ==
    IF Len(data) < Len(chunk_data)
    THEN [raised |-> TRUE, cause |-> "IndexError: list index out of range",
          chunks |-> <<>>]
    ELSE [raised |-> FALSE, cause |-> "",
          chunks |-> [i \in 1..Len(chunk_data) |->
                        [text |-> chunk_data[i].text,
                         contextualized_text |-> chunk_data[i].contextualized_text,
                         embedding |-> data[i].embedding,
                         index |-> chunk_data[i].index,
                         meta |-> chunk_data[i].meta]]]

\* From doc.export_to_text() to the list of ChunkResponse.
ProcessFromDoc(doc, cs, env) ==
    LET full == ExportToText(doc, env)
        c1 == Append(cs, full.call)
    IN  IF full.raised THEN Abort(full.cause, c1, <<>>, <<>>)
        ELSE
        LET run == ChunkerRun(doc, env)
            c2 == c1 \o run.calls
        IN  IF run.raised THEN Abort(run.cause, c2, run.produced, <<>>)
            ELSE
            LET chunk_data == ChunkData(run.produced)
                texts == ContextualizedTexts(chunk_data)
                emb == EmbeddingsCreate(texts, env)
                c3 == Append(c2, emb.call)
                io == << [input |-> texts, raised |-> emb.raised, data |-> emb.data] >>
            IN  IF emb.raised THEN Abort(emb.cause, c3, run.produced, io)
                ELSE
                LET built == ChunkResponses(chunk_data, emb.data)
                IN  IF built.raised THEN Abort(built.cause, c3, run.produced, io)
                    ELSE Completed(c3, run.produced, io, built.chunks, full.text)

\* A conversion error swallowed, the pipeline going on with an empty document.
ProcessPipeline_ContinueOnError(fsys, path, env) ==
    LET conv == ConverterConvert(fsys, path, env)
    IN  ProcessFromDoc(conv.doc, <<conv.call>>, env)

ProcessPipeline(fsys, path, env) ==
    LET conv == ConverterConvert(fsys, path, env)
    IN  IF conv.raised THEN Abort(conv.cause, <<conv.call>>, <<>>, <<>>)
        ELSE ProcessFromDoc(conv.doc, <<conv.call>>, env)

\* ProcessedDocumentResponse(chunks=chunks, total_chunks=len(chunks), full_text=full_text)
ProcessedDocumentResponse(chunks, full_text) ==
    [status |-> 200,
     body |-> [chunks |-> chunks, total_chunks |-> Len(chunks), full_text |-> full_text]]

----------------------------------------------------------------------------
(* POST /pdf/chunks: the body of the try block after the upload is staged  *)

\* for chunk in chunk_iter: chunks.append(ChunkResponse(...))
ExtractChunkResponses(prod) ==
    [i \in 1..Len(prod) |->
        [text |-> prod[i].text,
         contextualized_text |-> Contextualize(prod[i]),
         meta |-> ExportMeta(prod[i])]]

ExtractFromDoc(doc, cs, env) ==
    LET run == ChunkerRun(doc, env)
        c2 == cs \o run.calls
    IN  IF run.raised THEN Abort(run.cause, c2, run.produced, <<>>)
        ELSE Completed(c2, run.produced, <<>>, ExtractChunkResponses(run.produced), <<>>)

ExtractPipeline(fsys, path, env) ==
    LET conv == ConverterConvert(fsys, path, env)
    IN  IF conv.raised THEN Abort(conv.cause, <<conv.call>>, <<>>, <<>>)
        ELSE ExtractFromDoc(conv.doc, <<conv.call>>, env)

\* ChunksResponse(chunks=chunks, total_chunks=len(chunks))
ChunksResponse(chunks) ==
    [status |-> 200, body |-> [chunks |-> chunks, total_chunks |-> Len(chunks)]]

----------------------------------------------------------------------------
(* The temporary directory *)

\* One fixed path for every upload.
TemporaryNames_Fixed(fsys) == {nm \in Names : \A other \in Names : nm <= other}

\* tempfile.NamedTemporaryFile(delete=False, suffix='.pdf') opens a file under
\* a name no file has.
TemporaryNames(fsys) == {nm \in Names : fsys[nm] = <<>>}

\* The file is created empty, owned by the request that opened it.
OpenTemporaryFile(fsys, nm, r) ==
    [fsys EXCEPT ![nm] = IF fsys[nm] = <<>>
                         THEN << [creator |-> r, bytes |-> <<>>] >>
                         ELSE << [creator |-> fsys[nm][1].creator, bytes |-> <<>>] >>]

\* tmp_file.write(content), flushed when the with block closes the file.
WriteFile(fsys, nm, content) ==
    IF fsys[nm] = <<>> THEN fsys
    ELSE [fsys EXCEPT ![nm] = << [creator |-> fsys[nm][1].creator, bytes |-> content] >>]

\* if tmp_file_path: Path(tmp_file_path).unlink(missing_ok=True)
Unlink(fsys, path) ==
    IF path = <<>> THEN fsys ELSE [fsys EXCEPT ![path[1]] = <<>>]

\* @lru_cache: the first call constructs the singleton, later calls return it.
LruCache(cache, service, getters) == cache \cup {<<service, g>> : g \in getters}

----------------------------------------------------------------------------
(* The upload endpoints *)

NoRequests ==
    /\ pc = [r \in Requests |-> "idle"]
    /\ endpoint = [r \in Requests |-> "none"]
    /\ filename = [r \in Requests |-> <<>>]
    /\ tmp_file = [r \in Requests |-> <<>>]
    /\ tmp_file_path = [r \in Requests |-> <<>>]
    /\ fs = [nm \in Names |-> <<>>]
    /\ singletons = {}
    /\ response = [r \in Requests |-> NoResponse]
    /\ calls = [r \in Requests |-> <<>>]
    /\ produced = [r \in Requests |-> <<>>]
    /\ embed_io = [r \in Requests |-> <<>>]

Init ==
    /\ NoRequests
    /\ script = "none"
    /\ batch_pc = "off"
    /\ pdf_files = <<>>
    /\ idx = 0
    /\ stdout = <<>>
    /\ md_files = {}

\* The handler up to "await file.read()": the filename check, the singletons,
\* and the NamedTemporaryFile.
Begin(r, ep, fn, getters) ==
    /\ pc[r] = "idle"
    /\ endpoint' = [endpoint EXCEPT ![r] = ep]
    /\ filename' = [filename EXCEPT ![r] = fn]
    /\ IF Unsupported(fn)
       THEN /\ response' = [response EXCEPT ![r] = OnlyPdf]
            /\ pc' = [pc EXCEPT ![r] = "done"]
            /\ UNCHANGED <<tmp_file, fs, singletons>>
       ELSE /\ singletons' = LruCache(singletons, ep, getters)
            /\ \E nm \in TemporaryNames(fs) :
                  /\ fs' = OpenTemporaryFile(fs, nm, r)
                  /\ tmp_file' = [tmp_file EXCEPT ![r] = <<nm>>]
            /\ pc' = [pc EXCEPT ![r] = "reading"]
            /\ UNCHANGED response
    /\ UNCHANGED <<tmp_file_path, calls, produced, embed_io>>
    /\ UNCHANGED batchvars

\* content = await file.read(); tmp_file.write(content); tmp_file_path =
\* tmp_file.name.  When the read or the write raises, the with block closes the
\* file and the except clause finds tmp_file_path still None.
ReadUpload(r, ep) ==
    /\ pc[r] = "reading"
    /\ endpoint[r] = ep
    /\ \E outcome \in {"ok", "read raises", "write raises"} :
          IF outcome = "ok"
          THEN /\ fs' = WriteFile(fs, tmp_file[r][1], Upload(r))
               /\ tmp_file_path' = [tmp_file_path EXCEPT ![r] = tmp_file[r]]
               /\ pc' = [pc EXCEPT ![r] = "staged"]
               /\ UNCHANGED response
          ELSE /\ fs' = Unlink(fs, tmp_file_path[r])
               /\ response' = [response EXCEPT ![r] = ProcessingError(outcome)]
               /\ pc' = [pc EXCEPT ![r] = "done"]
               /\ UNCHANGED tmp_file_path
    /\ tmp_file' = [tmp_file EXCEPT ![r] = <<>>]
    /\ UNCHANGED <<endpoint, filename, singletons, calls, produced, embed_io>>
    /\ UNCHANGED batchvars

\* The rest of the handler, which never suspends: the pipeline, the unlink on
\* either path, and the response or the HTTPException.
Finish(r, ep, out, resp) ==
    /\ pc[r] = "staged"
    /\ endpoint[r] = ep
    /\ fs' = Unlink(fs, tmp_file_path[r])
    /\ response' = [response EXCEPT ![r] =
                      IF out.raised THEN ProcessingError(out.cause) ELSE resp]
    /\ calls' = [calls EXCEPT ![r] = out.calls]
    /\ produced' = [produced EXCEPT ![r] = out.produced]
    /\ embed_io' = [embed_io EXCEPT ![r] = out.embed_io]
    /\ tmp_file_path' = [tmp_file_path EXCEPT ![r] = <<>>]
    /\ pc' = [pc EXCEPT ![r] = "done"]
    /\ UNCHANGED <<endpoint, filename, tmp_file, singletons>>
    /\ UNCHANGED batchvars

ProcessBegin(r) ==
    \E fn \in Filenames :
        Begin(r, "process", fn, {"converter", "chunker", "openai_client", "settings"})

ProcessRead(r) == ReadUpload(r, "process")

ProcessRun(r) ==
    \E env \in Envs :
        LET out == ProcessPipeline(fs, tmp_file_path[r][1], env)
        IN  Finish(r, "process", out, ProcessedDocumentResponse(out.chunks, out.full_text))

ExtractBegin(r) ==
    \E fn \in Filenames : Begin(r, "chunks", fn, {"converter", "chunker"})

ExtractRead(r) == ReadUpload(r, "chunks")

ExtractRun(r) ==
    \E env \in Envs :
        LET out == ExtractPipeline(fs, tmp_file_path[r][1], env)
        IN  Finish(r, "chunks", out, ChunksResponse(out.chunks))

Next ==
    \E r \in Requests :
        \/ ProcessBegin(r)
        \/ ProcessRead(r)
        \/ ProcessRun(r)
        \/ ExtractBegin(r)
        \/ ExtractRead(r)
        \/ ExtractRun(r)

Spec == Init /\ [][Next]_vars

----------------------------------------------------------------------------
(* The batch scripts: every *.pdf of ./pdf, one after the other *)

\* pdf_files = list(pdf_folder.glob("*.pdf")), the script about to test it.
BatchInit ==
    /\ NoRequests
    /\ script \in {"service", "ingestion"}
    /\ batch_pc = "start"
    /\ pdf_files \in {[i \in 1..k |-> i] : k \in 0..MaxFiles}
    /\ idx = 0
    /\ stdout = <<>>
    /\ md_files = {}

\* if not pdf_files: print("No PDF files found ...") else: print("Found ...")
Scan(s) ==
    /\ script = s
    /\ batch_pc = "start"
    /\ IF pdf_files = <<>>
       THEN /\ stdout' = Append(stdout, <<"No PDF files found in ./pdf folder">>)
            /\ batch_pc' = "done"
            /\ UNCHANGED idx
       ELSE /\ stdout' = Append(stdout, <<"Found", Len(pdf_files)>>)
            /\ batch_pc' = "loop"
            /\ idx' = 1
    /\ UNCHANGED <<script, pdf_files, md_files>>
    /\ UNCHANGED reqvars

\* The exception leaves the loop.
AfterExcept_Reraise(i) == [batch_pc |-> "crashed", idx |-> i]

\* except Exception as e: print(...), and the for loop goes on to the next file.
AfterExcept(i) == [batch_pc |-> "loop", idx |-> i + 1]

\* print("Conversion complete! ..."), after the for loop.
Complete(s) ==
    /\ script = s
    /\ batch_pc = "loop"
    /\ idx > Len(pdf_files)
    /\ stdout' = Append(stdout, <<"Conversion complete!">>)
    /\ batch_pc' = "done"
    /\ UNCHANGED <<script, pdf_files, idx, md_files>>
    /\ UNCHANGED reqvars

ServiceScan == Scan("service")

\* One iteration: convert, export_to_markdown, write_text, each of which may raise.
ServiceConvertFile ==
    /\ script = "service"
    /\ batch_pc = "loop"
    /\ idx <= Len(pdf_files)
    /\ LET f == pdf_files[idx]
       IN  \E outcome \in {"ok", "convert raises", "export_to_markdown raises",
                           "write_text raises"} :
              IF outcome = "ok"
              THEN /\ md_files' = md_files \cup {f}
                   /\ stdout' = stdout \o << <<"Converting", f>>, <<"Saved markdown", f>> >>
                   /\ idx' = idx + 1
                   /\ UNCHANGED batch_pc
              ELSE /\ stdout' = stdout \o << <<"Converting", f>>, <<"Error converting", f, outcome>> >>
                   /\ idx' = AfterExcept(idx).idx
                   /\ batch_pc' = AfterExcept(idx).batch_pc
                   /\ UNCHANGED md_files
    /\ UNCHANGED <<script, pdf_files>>
    /\ UNCHANGED reqvars

ServiceComplete == Complete("service")

IngestionScan == Scan("ingestion")

\* for i, chunk in enumerate(chunk_iter): the lines printed for the chunks the
\* iteration got through.
ChunkLines(f, run) ==
    LET line(k) == IF k % 2 = 1 THEN <<"chunk.text", f, (k + 1) \div 2>>
                   ELSE <<"chunker.contextualize(chunk)", f, k \div 2>>
        printed == IF Len(run.produced) > run.done
                   THEN 2 * run.done + 1 ELSE 2 * run.done
    IN  [k \in 1..printed |-> line(k)]

\* One iteration: convert, chunk, and print every chunk with its enriched text.
IngestionConvertFile ==
    /\ script = "ingestion"
    /\ batch_pc = "loop"
    /\ idx <= Len(pdf_files)
    /\ LET f == pdf_files[idx]
       IN  \E env \in {e \in Envs : e.fault # "export_to_text" /\ ~e.emb_raises /\ e.m = 0} :
              LET raised == env.fault = "convert"
                  doc == [src |-> <<f>>, n |-> IF raised THEN 0 ELSE env.n]
                  run == ChunkerRun(doc, env)
              IN  IF raised
                  THEN /\ stdout' = stdout \o << <<"Converting", f>>,
                                                 <<"Error converting", f, "convert raises">> >>
                       /\ idx' = AfterExcept(idx).idx
                       /\ batch_pc' = AfterExcept(idx).batch_pc
                  ELSE IF run.raised
                  THEN /\ stdout' = (stdout \o << <<"Converting", f>> >> \o ChunkLines(f, run))
                                    \o << <<"Error converting", f, run.cause>> >>
                       /\ idx' = AfterExcept(idx).idx
                       /\ batch_pc' = AfterExcept(idx).batch_pc
                  ELSE /\ stdout' = stdout \o << <<"Converting", f>> >> \o ChunkLines(f, run)
                       /\ idx' = idx + 1
                       /\ UNCHANGED batch_pc
    /\ UNCHANGED <<script, pdf_files, md_files>>
    /\ UNCHANGED reqvars

IngestionComplete == Complete("ingestion")

BatchNext ==
    \/ ServiceScan
    \/ ServiceConvertFile
    \/ ServiceComplete
    \/ IngestionScan
    \/ IngestionConvertFile
    \/ IngestionComplete

\* The interpreter runs the script to its end: a step that can be taken is taken.
BatchSpec == BatchInit /\ [][BatchNext]_vars /\ WF_vars(BatchNext)

----------------------------------------------------------------------------
(* Properties *)

Range(seq) == {seq[i] : i \in 1..Len(seq)}

Done(r) == pc[r] = "done"

\* The temporary files request r created that still exist.
CreatedBy(r) == {nm \in Names : fs[nm] # <<>> /\ fs[nm][1].creator = r}

\* embeddings.create returned to request r a list whose length is not that of its input.
Mismatch(r) ==
    /\ Len(embed_io[r]) = 1
    /\ ~embed_io[r][1].raised
    /\ Len(embed_io[r][1].data) # Len(embed_io[r][1].input)

\* C1: whenever the embeddings client returns a list whose length differs from
\* the number of strings submitted, the request fails (an error response, no
\* chunk record): the list is never truncated or padded to fit.
C1_MismatchFails ==
    \A r \in Requests :
        (Done(r) /\ endpoint[r] = "process" /\ Mismatch(r)) => response[r].status = 500

\* C2: whenever a request that staged its upload in a temporary file has ended,
\* on any exit path, that file no longer exists.
C2_TempFileReleased ==
    \A r \in Requests : Done(r) => CreatedBy(r) = {}

C4_ContiguousIndices ==
    \A r \in Requests :
        (Done(r) /\ endpoint[r] = "process" /\ response[r].status = 200) =>
            /\ response[r].body.total_chunks = Len(response[r].body.chunks)
            /\ response[r].body.total_chunks = Len(produced[r])
            /\ \A i \in 1..Len(response[r].body.chunks) :
                  response[r].body.chunks[i].index = i - 1

C4_Witness ==
    \E r \in Requests :
        /\ Done(r) /\ endpoint[r] = "process" /\ response[r].status = 200
        /\ response[r].body.total_chunks = MaxChunks

\* Conversion succeeded and the chunker ran to its end without yielding a chunk.
EmptyDocument(r) ==
    /\ <<"convert", "ok">> \in Range(calls[r])
    /\ <<"next", "ok">> \in Range(calls[r])
    /\ produced[r] = <<>>

\* C5: for an empty document both upload endpoints return a success with an
\* empty chunk list and total_chunks 0, not an error.
C5_EmptyDocumentSucceeds ==
    \A r \in Requests :
        (Done(r) /\ EmptyDocument(r)) =>
            /\ response[r].status = 200
            /\ response[r].body.chunks = <<>>
            /\ response[r].body.total_chunks = 0

\* The filename is missing or does not end in ".pdf".
UnsupportedUpload(r) == filename[r] = <<>> \/ ~EndsWith(filename[r][1], DotPdf)

\* C6: an upload whose filename is missing or does not end in ".pdf" is answered
\* 400 before any processing: no temporary file, no collaborator call.
C6_UnsupportedRejected ==
    \A r \in Requests :
        (pc[r] # "idle" /\ UnsupportedUpload(r)) =>
            /\ Done(r)
            /\ response[r].status = 400
            /\ response[r].body.detail = <<"Only PDF files are supported">>
            /\ CreatedBy(r) = {}
            /\ tmp_file[r] = <<>> /\ tmp_file_path[r] = <<>>
            /\ calls[r] = <<>> /\ produced[r] = <<>> /\ embed_io[r] = <<>>

C6_Witness ==
    \E r \in Requests :
        /\ Done(r)
        /\ filename[r] = << <<"a", ".", "P", "D", "F">> >>
        /\ response[r].status = 400

\* The files the script printed "Converting: ..." for, in order.
Attempted ==
    LET lines == SelectSeq(stdout, LAMBDA l : l[1] = "Converting")
    IN  [i \in 1..Len(lines) |-> lines[i][2]]

\* C7: a batch run over a non-empty folder ends, with every file found attempted
\* exactly once, in order, whatever happened to the files before it, and with
\* the completion message printed last.
C7_EveryFileAttempted ==
    /\ [](batch_pc = "done" =>
            /\ Attempted = pdf_files
            /\ pdf_files # <<>> => stdout[Len(stdout)] = <<"Conversion complete!">>)
    /\ [](batch_pc \in {"start", "loop", "done"})
    /\ <>(batch_pc = "done")

C7_Witness ==
    /\ batch_pc = "done"
    /\ Len(pdf_files) = MaxFiles
    /\ \E l \in Range(stdout) : l[1] = "Error converting" /\ l[2] = pdf_files[1]
    /\ \E l \in Range(stdout) : l[1] = "Error converting" /\ l[2] = pdf_files[2]
    /\ stdout[Len(stdout)] = <<"Conversion complete!">>

\* C8: when converter.convert raises, the request ends with the 500 error that
\* carries the cause, nothing is called after convert (no export, chunking,
\* contextualization or embedding) and no chunk or text is returned.
C8_ConversionFailureAborts ==
    \A r \in Requests :
        (Done(r) /\ <<"convert", "raise">> \in Range(calls[r])) =>
            /\ response[r].status = 500
            /\ response[r].body = [detail |-> <<"Error processing PDF: ", "ConversionError">>]
            /\ calls[r] = << <<"convert", "raise">> >>
            /\ produced[r] = <<>>
            /\ embed_io[r] = <<>>

C8_Witness ==
    \E r1, r2 \in Requests :
        /\ Done(r1) /\ endpoint[r1] = "process" /\ <<"convert", "raise">> \in Range(calls[r1])
        /\ Done(r2) /\ endpoint[r2] = "chunks" /\ <<"convert", "raise">> \in Range(calls[r2])

\* C9: process_pdf_document calls the embeddings client at most once, after the
\* chunker is exhausted and every chunk contextualized, with the contextualized
\* strings of all chunks in chunk order; on success record i carries the text
\* and contextualized text of the i-th chunk and the i-th vector returned.
C9_BatchZippedByPosition ==
    \A r \in Requests :
        (Done(r) /\ endpoint[r] = "process") =>
            /\ Len(embed_io[r]) <= 1
            /\ Len(embed_io[r]) = 1 =>
                  /\ embed_io[r][1].input
                        = [i \in 1..Len(produced[r]) |-> Contextualize(produced[r][i])]
                  /\ calls[r][Len(calls[r])][1] = "embeddings.create"
                  /\ calls[r][Len(calls[r]) - 1] = <<"next", "ok">>
                  /\ Cardinality({k \in 1..Len(calls[r]) : calls[r][k] = <<"contextualize", "ok">>})
                        = Len(produced[r])
                  /\ Cardinality({k \in 1..Len(calls[r]) : calls[r][k][1] = "embeddings.create"}) = 1
            /\ response[r].status = 200 =>
                  /\ Len(embed_io[r]) = 1
                  /\ Len(response[r].body.chunks) = Len(produced[r])
                  /\ \A i \in 1..Len(produced[r]) :
                        /\ response[r].body.chunks[i].text = produced[r][i].text
                        /\ response[r].body.chunks[i].contextualized_text
                              = Contextualize(produced[r][i])
                        /\ response[r].body.chunks[i].embedding
                              = embed_io[r][1].data[i].embedding

C9_Witness ==
    \E r \in Requests :
        /\ Done(r) /\ endpoint[r] = "process" /\ response[r].status = 200
        /\ Len(response[r].body.chunks) = MaxChunks
        /\ Len(embed_io[r][1].data) = MaxChunks

\* The temporary file request r is working on.
Staging(r) ==
    IF pc[r] = "reading" THEN tmp_file[r]
    ELSE IF pc[r] = "staged" THEN tmp_file_path[r] ELSE <<>>

\* C10: requests that interleave keep to their own temporary file: two requests
\* in progress never hold the same one, the file of a request in progress exists
\* (no other request removed it), was created by it and, once staged, holds its
\* own upload; and a successful response holds only chunks of the request's own
\* document.
C10_RequestsIndependent ==
    /\ \A r \in Requests :
          Staging(r) # <<>> =>
              /\ fs[Staging(r)[1]] # <<>>
              /\ fs[Staging(r)[1]][1].creator = r
              /\ pc[r] = "staged" => fs[Staging(r)[1]][1].bytes = Upload(r)
    /\ \A r1, r2 \in Requests :
          (r1 # r2 /\ Staging(r1) # <<>> /\ Staging(r2) # <<>>) => Staging(r1) # Staging(r2)
    /\ \A r \in Requests :
          (Done(r) /\ response[r].status = 200) =>
              /\ \A i \in 1..Len(response[r].body.chunks) :
                    response[r].body.chunks[i].text[2] = Upload(r)
              /\ \A i \in 1..Len(produced[r]) : produced[r][i].text[2] = Upload(r)

C10_Witness ==
    \E r1, r2 \in Requests :
        /\ r1 # r2
        /\ pc[r1] = "staged"
        /\ Done(r2) /\ response[r2].status = 200 /\ Len(response[r2].body.chunks) > 0

====
